---- MODULE Spec2Model ----
(***************************************************************************)
(* A model of the certificate-transparency monitor of domain_watcher       *)
(* (internal/pkg/certwatch/monitor.go): the domain matcher, the per-shard  *)
(* cursors, the polling and live source managers, the dispatch to sinks    *)
(* and the Start/Stop lifecycle.                                           *)
(*                                                                         *)
(* Strings are sequences of one-character strings, so that trimming,       *)
(* lower-casing, prefixes and suffixes are computed and not assumed.       *)
(***************************************************************************)
EXTENDS Integers, Sequences, FiniteSets, TLC

VARIABLES
    certDomain,         \* domainMatches: first argument
    watchedDomain,      \* domainMatches: second argument
    includeSubdomains,  \* domainMatches: third argument
    result,             \* domainMatches: "none" before the call, then "true" or "false"
    liveMode,           \* Monitor.liveMode
    allDomainsMode,     \* Monitor.allDomainsMode
    ctClients,          \* Monitor.ctClients: the shards a client was created for
    lastIndex,          \* CTLogClient.lastIndex of every shard
    watchedDomains,     \* Monitor.watchedDomains: key -> *DomainWatch (an address)
    heap,               \* the DomainWatch objects, by address
    snapshot,           \* the map a GetWatchedDomains caller holds: key -> address
    call,               \* the last registry call: name, arguments, keys before it
    userAccess,         \* address of the entry a snapshot user is reading (0: none)
    handlers,           \* Monitor.handlers, in registration order
    ctxDone,            \* Monitor.ctx is cancelled
    stopChanClosed,     \* Monitor.stopChan is closed
    panicked,           \* the process died of a runtime panic
    stopCalls,          \* calls of Stop that ran
    mgr,                \* where Start is: the polling or the live manager
    cycles,             \* polling cycles begun
    clock,              \* waits completed (timer waits are where time passes)
    initTask,           \* the initializeLogStartingPoint goroutine of every shard
    task,               \* the polling worker of every shard, and the live task
    inHandle,           \* Handle calls in progress on every sink
    probe,              \* observer: one entry index, picked at the start
    probeCount,         \* observer: per shard, times the probe index went to processCTEntry
    feed,               \* the endpoint the live subscription is connected to
    liveEvents,         \* messages read from the stream
    reconnects          \* resubscriptions after a feed error

matchVars == <<certDomain, watchedDomain, includeSubdomains, result>>

cfgVars == <<liveMode, allDomainsMode, ctClients, handlers>>

stopVars == <<ctxDone, stopChanClosed, panicked, stopCalls>>

liveVars == <<feed, liveEvents, reconnects>>

regVars == <<watchedDomains, heap, snapshot, call, userAccess>>

monVars == <<cfgVars, stopVars, liveVars, lastIndex, regVars, mgr, cycles, clock,
             initTask, task, inHandle, probe, probeCount>>

vars == <<matchVars, monVars>>

-----------------------------------------------------------------------------
(* Bounds of the matcher's inputs.                                         *)

MaxCertLen == 4
MaxWatchLen == 1

\* The characters of the bounded domain strings: a lower-case and an
\* upper-case letter, the label separator, the wildcard star and a blank.
Alphabet == {"a", "A", ".", "*", " "}

RECURSIVE StringsUpTo(_)
StringsUpTo(n) ==
    IF n = 0 THEN {<<>>}
    ELSE LET shorter == StringsUpTo(n - 1)
         IN  shorter \cup {Append(s, c) : s \in {t \in shorter : Len(t) = n - 1}, c \in Alphabet}

-----------------------------------------------------------------------------
(* strings.ToLower, strings.TrimSpace, strings.HasSuffix, strings.HasPrefix *)

LowerChar(c) == IF c = "A" THEN "a" ELSE c

ToLower(s) == [i \in 1..Len(s) |-> LowerChar(s[i])]

IsSpace(c) == c = " "

RECURSIVE TrimLeft(_)
TrimLeft(s) ==
    IF s # <<>> /\ IsSpace(Head(s)) THEN TrimLeft(Tail(s)) ELSE s

RECURSIVE TrimRight(_)
TrimRight(s) ==
    IF s # <<>> /\ IsSpace(s[Len(s)]) THEN TrimRight(SubSeq(s, 1, Len(s) - 1)) ELSE s

TrimSpace(s) == TrimRight(TrimLeft(s))

HasSuffix(s, suffix) ==
    /\ Len(s) >= Len(suffix)
    /\ SubSeq(s, Len(s) - Len(suffix) + 1, Len(s)) = suffix

HasPrefix(s, prefix) ==
    /\ Len(s) >= Len(prefix)
    /\ SubSeq(s, 1, Len(prefix)) = prefix

-----------------------------------------------------------------------------
(* Monitor.domainMatches, statement by statement.                          *)

\* A matcher that forgets the "." separator of the subdomain rule.
domainMatchesNoSeparator(cert, watched, inclSub) ==
    LET c == ToLower(TrimSpace(cert))
        w == ToLower(TrimSpace(watched))
    IN  IF c = w THEN TRUE
        ELSE IF inclSub /\ HasSuffix(c, w) THEN TRUE
        ELSE IF HasPrefix(c, <<"*", ".">>)
             THEN LET baseDomain == SubSeq(c, 3, Len(c))
                  IN  IF baseDomain = w THEN TRUE
                      ELSE inclSub /\ HasSuffix(baseDomain, w)
             ELSE FALSE

domainMatches(cert, watched, inclSub) ==
    LET c == ToLower(TrimSpace(cert))
        w == ToLower(TrimSpace(watched))
    IN  IF c = w THEN TRUE
        ELSE IF inclSub /\ HasSuffix(c, <<".">> \o w) THEN TRUE
        ELSE IF HasPrefix(c, <<"*", ".">>)
             THEN LET baseDomain == SubSeq(c, 3, Len(c))
                  IN  IF baseDomain = w THEN TRUE
                      ELSE inclSub /\ HasSuffix(baseDomain, <<".">> \o w)
             ELSE FALSE

-----------------------------------------------------------------------------
(* The monitor: shards, sinks, the registry and the log entries read.      *)

batchSize == 50
lookback == 100
initialLastIndex == -1

MaxCycles == 2
NumSinks == 2
MaxStops == 2
MaxLiveEvents == 2
MaxReconnects == 2

Shards == {"log1", "log2", "log3"}
LiveTask == "live"
Tasks == Shards \cup {LiveTask}

\* The tree sizes a shard's get-sth may answer with.
TreeSizes(s) == IF s = "log1" THEN {30, 130} ELSE {2}

Min(a, b) == IF a < b THEN a ELSE b

Str_a == <<"a">>
Str_sub == <<"A", ".", "a">>
Str_dot == <<".">>

\* A DomainWatch that is created inactive.
NewDomainWatchInactive(domain, inclSub, now) ==
    [Domain |-> domain, IncludeSubdomains |-> inclSub, CreatedAt |-> now,
     LastSeen |-> 0, Active |-> FALSE]

\* The registry as cmd/monitor.go leaves it before Start: one DomainWatch
\* per command-line domain, all with the same include-subdomains flag.
NewDomainWatch(domain, inclSub, now) ==
    [Domain |-> domain, IncludeSubdomains |-> inclSub, CreatedAt |-> now,
     LastSeen |-> 0, Active |-> TRUE]

\* Subject common name and DNS names of the certificates found in the logs.
Certs ==
    { [cn |-> <<>>, dnsNames |-> <<>>],
      [cn |-> Str_dot, dnsNames |-> <<>>],
      [cn |-> Str_sub, dnsNames |-> <<Str_a>>] }

EntryTypes == {"x509", "precert", "unknown"}

\* The entry indices the observer can follow through the cycles.
ProbeIndices == {0}

\* No GetWatchedDomains result yet, and no registry call yet.
NoSnapshot == [taken |-> FALSE, map |-> << >>]

NoCall == [op |-> "none", domain |-> << >>, inclSub |-> FALSE, before |-> {}]

\* What a processing step was given: nothing yet, an entry of unknown
\* type, an entry that does not parse, a stream message that is dropped
\* before the match step, or a certificate with its candidate domains.
NoInput == [kind |-> "none", domains |-> << >>]

Input(kind, domains) == [kind |-> kind, domains |-> domains]

IdleTask ==
    [pc |-> "idle", input |-> NoInput, messageType |-> "none", currentSize |-> 0, cursor |-> 0, endIndex |-> 0, start |-> 0,
     n |-> 0, i |-> 0, index |-> 0, allDomains |-> <<>>, matchedDomain |-> <<>>,
     watchConfig |-> 0, h |-> 0, calls |-> <<>>, firstErr |-> 0, ret |-> "nil", wrote |-> FALSE,
     dispatched |-> FALSE]

-----------------------------------------------------------------------------
(* NewMonitor, followed by the configuration cmd/monitor.go applies.       *)

Init ==
    /\ certDomain = <<>> /\ watchedDomain = <<>>
    /\ includeSubdomains = FALSE /\ result = "none"
    /\ liveMode \in BOOLEAN
    /\ allDomainsMode = FALSE
    /\ ctClients \in {{}, {"log1"}}
    /\ lastIndex = [s \in Shards |-> initialLastIndex]
    /\ watchedDomains = (Str_a :> 1)
    /\ heap = (1 :> NewDomainWatch(Str_a, TRUE, 1))
    /\ snapshot = NoSnapshot /\ call = NoCall /\ userAccess = 0
    /\ handlers = [k \in 1..NumSinks |-> k]
    /\ ctxDone = FALSE /\ stopChanClosed = FALSE /\ panicked = FALSE /\ stopCalls = 0
    /\ mgr = "idle" /\ cycles = 0 /\ clock = 1
    /\ initTask = [s \in Shards |-> "idle"]
    /\ task = [t \in Tasks |-> IdleTask]
    /\ inHandle = [k \in 1..NumSinks |-> 0]
    /\ probe \in ProbeIndices
    /\ probeCount = [s \in Shards |-> 0]
    /\ feed = "none" /\ liveEvents = 0 /\ reconnects = 0

-----------------------------------------------------------------------------
(* Monitor.Stop                                                            *)

\* A Stop that forgets m.cancel().
CancelForgotten(done) == done

\* m.cancel(): the context is done afterwards, whatever it was before.
Cancel(done) == TRUE

Stop ==
    /\ ~panicked
    /\ stopCalls < MaxStops
    /\ stopCalls' = stopCalls + 1
    /\ ctxDone' = Cancel(ctxDone)
    /\ IF stopChanClosed
       THEN \* close of a closed channel: the panic ends the process and
            \* with it Start and every goroutine
            /\ panicked' = TRUE
            /\ mgr' = "crashed"
            /\ initTask' = [s \in Shards |-> "idle"]
            /\ task' = [t \in Tasks |-> IdleTask]
            /\ inHandle' = [k \in 1..NumSinks |-> 0]
            /\ UNCHANGED stopChanClosed
       ELSE /\ stopChanClosed' = TRUE
            /\ UNCHANGED <<panicked, mgr, initTask, task, inHandle>>
    /\ UNCHANGED <<matchVars, cfgVars, liveVars, lastIndex, regVars, cycles,
                   clock, probe, probeCount>>

-----------------------------------------------------------------------------
(* Monitor.Start, Monitor.startPollingMode                                 *)

\* A start that treats an empty shard list like a cancelled run.
NoClientsOutcomeNil == "returnedNil"

\* return fmt.Errorf("no CT clients available")
NoClientsOutcome == "returnedErr"

StartPollingNoClients ==
    /\ ~panicked /\ mgr = "idle" /\ ~liveMode
    /\ ctClients = {}
    /\ mgr' = NoClientsOutcome
    /\ UNCHANGED <<matchVars, cfgVars, stopVars, liveVars, lastIndex, regVars,
                   cycles, clock, initTask, task, inHandle, probe, probeCount>>

StartPolling ==
    /\ ~panicked /\ mgr = "idle" /\ ~liveMode
    /\ ctClients # {}
    /\ initTask' = [s \in Shards |-> IF s \in ctClients THEN "getSTH" ELSE initTask[s]]
    /\ mgr' = "sleep"
    /\ UNCHANGED <<matchVars, cfgVars, stopVars, liveVars, lastIndex, regVars,
                   cycles, clock, task, inHandle, probe, probeCount>>

\* time.Sleep(5 * time.Second) returns: the sleep does not look at m.ctx.
SleepDone ==
    /\ ~panicked /\ mgr = "sleep"
    /\ mgr' = "select"
    /\ clock' = clock + 1
    /\ UNCHANGED <<matchVars, cfgVars, stopVars, liveVars, lastIndex, regVars,
                   cycles, initTask, task, inHandle, probe, probeCount>>

\* select: case <-m.ctx.Done()
PollCtxDone ==
    /\ ~panicked /\ mgr = "select"
    /\ ctxDone
    /\ mgr' = "returnedNil"
    /\ UNCHANGED <<matchVars, cfgVars, stopVars, liveVars, lastIndex, regVars,
                   cycles, clock, initTask, task, inHandle, probe, probeCount>>

\* select: case <-ticker.C, which launches one checkNewCertificates per shard.
\* When the context is done and a tick is pending, select takes either case.
Tick ==
    /\ ~panicked /\ mgr = "select"
    /\ cycles < MaxCycles
    /\ cycles' = cycles + 1
    /\ clock' = clock + 1
    /\ task' = [t \in Tasks |->
                  IF t \in ctClients THEN [IdleTask EXCEPT !.pc = "getSTH"] ELSE task[t]]
    /\ mgr' = "wait"
    /\ UNCHANGED <<matchVars, cfgVars, stopVars, liveVars, lastIndex, regVars,
                   initTask, inHandle, probe, probeCount>>

\* A wait that ends as soon as one worker of the cycle has returned.
AnyWorkerReturned == \E s \in ctClients : task[s].pc \in {"done", "failed"}

\* wg.Wait(): every worker of the cycle has called wg.Done().
WorkersReturned == \A s \in ctClients : task[s].pc \in {"done", "failed"}

\* A manager that returns the error of a worker that failed.
AfterCycleFailsFast(anyFailed) == IF anyFailed THEN "returnedErr" ELSE "select"

\* A worker's error is logged inside its goroutine; after wg.Wait() the
\* for loop goes back to the select, whatever the workers returned.
AfterCycle(anyFailed) == "select"

\* wg.Wait() returns once every worker of the cycle has returned.
WaitDone ==
    /\ ~panicked /\ mgr = "wait"
    /\ WorkersReturned
    /\ mgr' = AfterCycle(\E s \in ctClients : task[s].pc = "failed")
    /\ UNCHANGED <<matchVars, cfgVars, stopVars, liveVars, lastIndex, regVars,
                   cycles, clock, initTask, task, inHandle, probe, probeCount>>

-----------------------------------------------------------------------------
(* Monitor.initializeLogStartingPoint, one goroutine per shard, started by *)
(* startPollingMode and never joined.                                      *)

InitSTHFails(s) ==
    /\ ~panicked /\ initTask[s] = "getSTH"
    /\ lastIndex' = [lastIndex EXCEPT ![s] = 0]
    /\ initTask' = [initTask EXCEPT ![s] = "done"]
    /\ UNCHANGED <<matchVars, cfgVars, stopVars, liveVars, regVars, mgr, cycles,
                   clock, task, inHandle, probe, probeCount>>

InitSTH(s) ==
    /\ ~panicked /\ initTask[s] = "getSTH"
    /\ \E treeSize \in TreeSizes(s) :
          lastIndex' = [lastIndex EXCEPT ![s] = treeSize - lookback]
    /\ initTask' = [initTask EXCEPT ![s] = "clamp"]
    /\ UNCHANGED <<matchVars, cfgVars, stopVars, liveVars, regVars, mgr, cycles,
                   clock, task, inHandle, probe, probeCount>>

InitClamp(s) ==
    /\ ~panicked /\ initTask[s] = "clamp"
    /\ lastIndex' = IF lastIndex[s] < 0 THEN [lastIndex EXCEPT ![s] = 0] ELSE lastIndex
    /\ initTask' = [initTask EXCEPT ![s] = "done"]
    /\ UNCHANGED <<matchVars, cfgVars, stopVars, liveVars, regVars, mgr, cycles,
                   clock, task, inHandle, probe, probeCount>>

-----------------------------------------------------------------------------
(* The match step of processCTEntry and processLiveEvent (under RLock).    *)

NoMatch == [matchedDomain |-> <<>>, watchConfig |-> 0]

\* The watched keys the inner loop can stop at for one certificate domain:
\* map iteration order is unspecified, so any matching key can come first.
Hits(domain) ==
    {w \in DOMAIN watchedDomains :
        domainMatches(domain, w, heap[watchedDomains[w]].IncludeSubdomains)}

\* A match loop that goes through all the certificate's domains and may
\* report a hit of any of them.
MatchFromAnyCandidate(allDomains, k) ==
    LET found == {[matchedDomain |-> w, watchConfig |-> watchedDomains[w]] :
                     w \in UNION {Hits(allDomains[j]) : j \in k..Len(allDomains)}
                           \ {<<>>}}
    IN  IF found = {} THEN {NoMatch} ELSE found

\* The outer loop over the certificate's domains, from position k on.  The
\* inner loop stops at whichever matching key the map iteration meets first;
\* the outer loop stops when the key it was left with is not empty (an empty
\* matching key reads as "no match" and the next domain is examined).
RECURSIVE MatchFrom(_, _)
MatchFrom(allDomains, k) ==
    IF k > Len(allDomains) THEN {NoMatch}
    ELSE {[matchedDomain |-> w, watchConfig |-> watchedDomains[w]] :
              w \in Hits(allDomains[k]) \ {<<>>}}
         \cup (IF Hits(allDomains[k]) = {} \/ <<>> \in Hits(allDomains[k])
               THEN MatchFrom(allDomains, k + 1) ELSE {})

\* An all-domains mode that reports the last certificate domain.
MatchAllDomainsLast(allDomains) ==
    IF Len(allDomains) > 0
    THEN {[matchedDomain |-> allDomains[Len(allDomains)], watchConfig |-> 0]}
    ELSE {[matchedDomain |-> <<>>, watchConfig |-> 0]}

\* All-domains mode: the first certificate domain, with a throw-away config.
MatchAllDomains(allDomains) ==
    IF Len(allDomains) > 0
    THEN {[matchedDomain |-> allDomains[1], watchConfig |-> 0]}
    ELSE {NoMatch}

\* The match step of processCTEntry.
MatchResults(allDomains) ==
    IF allDomainsMode THEN MatchAllDomains(allDomains) ELSE MatchFrom(allDomains, 1)

\* All-domains mode in processLiveEvent: matchedDomain = allDomains[0],
\* without a length check (the list is not empty when the step is reached).
LiveMatchAllDomains(allDomains) ==
    {[matchedDomain |-> allDomains[1], watchConfig |-> 0]}

\* The match step of processLiveEvent.
LiveMatchResults(allDomains) ==
    IF allDomainsMode THEN LiveMatchAllDomains(allDomains) ELSE MatchFrom(allDomains, 1)

\* processLiveEvent from the length check on: an empty candidate list
\* returns before the match step, which is the outcome "no match".
LiveMatchOutcome(allDomains) ==
    IF Len(allDomains) = 0 THEN {NoMatch} ELSE LiveMatchResults(allDomains)

\* Subject common name (when not empty) followed by the DNS names.
ExtractDomains(cert) ==
    (IF cert.cn # <<>> THEN <<cert.cn>> ELSE <<>>) \o cert.dnsNames

createCertificateEntry(allDomains, matchedDomain, index, logClient) ==
    [Domain |-> matchedDomain, Subdomains |-> allDomains,
     LogURL |-> "certstream", Index |-> 0]

\* A live event that names the endpoint it was read from.
createLiveCertificateEntryFromFeed(allDomains, matchedDomain) ==
    [Domain |-> matchedDomain, Subdomains |-> allDomains,
     LogURL |-> feed, Index |-> 0]

\* LogURL: "certstream", Index: 0 (the stream does not provide an index)
createLiveCertificateEntry(allDomains, matchedDomain) ==
    [Domain |-> matchedDomain, Subdomains |-> allDomains,
     LogURL |-> "certstream", Index |-> 0]

-----------------------------------------------------------------------------
(* Monitor.checkNewCertificates, one goroutine per shard and cycle.        *)

\* endIndex := lastIndex + batchSize; if endIndex > currentSize { endIndex = currentSize }
EndIndex(cursor, currentSize) ==
    IF cursor + batchSize > currentSize THEN currentSize ELSE cursor + batchSize

\* How many entries get-entries may answer with for [start, endIndex):
\* one, or all that were asked for (none for an empty range).
EntryCounts(start, endIndex) ==
    IF endIndex - start <= 0 THEN {0} ELSE {1, endIndex - start}

PollSTHFails(s) ==
    /\ ~panicked /\ task[s].pc = "getSTH"
    /\ task' = [task EXCEPT ![s].pc = "failed"]
    /\ UNCHANGED <<matchVars, cfgVars, stopVars, liveVars, lastIndex, regVars, mgr, cycles,
                   clock, initTask, inHandle, probe, probeCount>>

PollSTH(s) ==
    /\ ~panicked /\ task[s].pc = "getSTH"
    /\ \E treeSize \in TreeSizes(s) :
          task' = [task EXCEPT ![s].pc = "check", ![s].currentSize = treeSize]
    /\ UNCHANGED <<matchVars, cfgVars, stopVars, liveVars, lastIndex, regVars, mgr, cycles,
                   clock, initTask, inHandle, probe, probeCount>>

\* A check that goes on to fetch when the tree size equals the cursor.
NothingNewStrict(currentSize, index) == currentSize < index

\* currentSize <= logClient.lastIndex
NothingNew(currentSize, index) == currentSize <= index

\* if currentSize <= logClient.lastIndex { return nil }
PollCheck(s) ==
    /\ ~panicked /\ task[s].pc = "check"
    /\ task' = [task EXCEPT ![s].pc =
                  IF NothingNew(task[s].currentSize, lastIndex[s])
                  THEN "done" ELSE "computeEnd"]
    /\ UNCHANGED <<matchVars, cfgVars, stopVars, liveVars, lastIndex, regVars, mgr, cycles,
                   clock, initTask, inHandle, probe, probeCount>>

PollComputeEnd(s) ==
    /\ ~panicked /\ task[s].pc = "computeEnd"
    /\ task' = [task EXCEPT ![s].pc = "fetch",
                            ![s].cursor = lastIndex[s],
                            ![s].endIndex = EndIndex(lastIndex[s], task[s].currentSize)]
    /\ UNCHANGED <<matchVars, cfgVars, stopVars, liveVars, lastIndex, regVars, mgr, cycles,
                   clock, initTask, inHandle, probe, probeCount>>

\* A failing fetch that gives the range up and moves the cursor past it.
IndexAfterFailureSkips(index, t) == t.endIndex

\* return fmt.Errorf("failed to get entries: %w", err): lastIndex keeps its value.
IndexAfterFailure(index, t) == index

\* GetEntries(ctx, logClient.lastIndex, endIndex-1) returns an error.
PollFetchFails(s) ==
    /\ ~panicked /\ task[s].pc = "fetch"
    /\ task' = [task EXCEPT ![s].pc = "failed", ![s].start = lastIndex[s]]
    /\ lastIndex' = [lastIndex EXCEPT ![s] = IndexAfterFailure(@, task[s])]
    /\ UNCHANGED <<matchVars, cfgVars, stopVars, liveVars, regVars, mgr, cycles,
                   clock, initTask, inHandle, probe, probeCount>>

PollFetch(s) ==
    /\ ~panicked /\ task[s].pc = "fetch"
    /\ \E n \in EntryCounts(lastIndex[s], task[s].endIndex) :
          task' = [task EXCEPT ![s].pc = "loop", ![s].start = lastIndex[s],
                                  ![s].n = n, ![s].i = 0]
    /\ UNCHANGED <<matchVars, cfgVars, stopVars, liveVars, lastIndex, regVars, mgr, cycles,
                   clock, initTask, inHandle, probe, probeCount>>

\* An entry loop that skips the entry after the one it processed.
NextEntrySkips(t, ret) ==
    [t EXCEPT !.pc = "loop", !.i = t.i + 2, !.ret = ret, !.allDomains = <<>>,
              !.matchedDomain = <<>>, !.watchConfig = 0, !.h = 0, !.calls = <<>>,
              !.firstErr = 0, !.index = 0]

\* The task after processCTEntry returned for entry i: the loop goes on.
NextEntry(t, ret) ==
    [t EXCEPT !.pc = "loop", !.i = t.i + 1, !.ret = ret, !.allDomains = <<>>,
              !.matchedDomain = <<>>, !.watchConfig = 0, !.h = 0, !.calls = <<>>,
              !.firstErr = 0, !.index = 0]

\* The task after the match step found a watched domain.
Matched(t, index, allDomains, m) ==
    [t EXCEPT !.pc = IF allDomainsMode THEN "dispatch" ELSE "update",
              !.index = index, !.allDomains = allDomains,
              !.matchedDomain = m.matchedDomain, !.watchConfig = m.watchConfig,
              !.h = 1, !.calls = <<>>, !.firstErr = 0, !.ret = "nil"]

\* for i, entry := range entries { index := lastIndex + i; processCTEntry(...) }
\* up to the end of the read-locked match step of processCTEntry.
ProcessEntry(s) ==
    /\ ~panicked /\ task[s].pc = "loop"
    /\ task[s].i < task[s].n
    /\ LET index == lastIndex[s] + task[s].i IN
         /\ probeCount' = IF index = probe /\ probeCount[s] < 2
                           THEN [probeCount EXCEPT ![s] = @ + 1] ELSE probeCount
         /\ UNCHANGED probe
         /\ \/ \* default: unknown entry type
               task' = [task EXCEPT ![s] =
                           [NextEntry(@, "unknown entry type")
                               EXCEPT !.input = Input("unknown", << >>)]]
            \/ \* x509.ParseCertificate fails: skipped silently
               task' = [task EXCEPT ![s] =
                           [NextEntry(@, "nil") EXCEPT !.input = Input("unparsed", << >>)]]
            \/ \E type \in EntryTypes \ {"unknown"}, cert \in Certs :
                 \E m \in MatchResults(ExtractDomains(cert)) :
                    IF m.matchedDomain = <<>>
                    THEN task' = [task EXCEPT ![s] =
                                    [NextEntry(@, "nil") EXCEPT
                                        !.input = Input("cert", ExtractDomains(cert))]]
                    ELSE task' = [task EXCEPT ![s] =
                                    [Matched(@, index, ExtractDomains(cert), m) EXCEPT
                                        !.input = Input("cert", ExtractDomains(cert))]]
    /\ UNCHANGED <<matchVars, cfgVars, stopVars, liveVars, lastIndex, regVars, mgr, cycles,
                   clock, initTask, inHandle>>

\* A cursor that stays where it was when the last entry returned an error.
AdvancedIndexUnlessError(t) == IF t.ret = "nil" THEN t.endIndex ELSE t.cursor

\* logClient.lastIndex = endIndex, whatever the entries of the batch returned
AdvancedIndex(t) == t.endIndex

\* logClient.lastIndex = endIndex; return nil
AdvanceCursor(s) ==
    /\ ~panicked /\ task[s].pc = "loop"
    /\ task[s].i >= task[s].n
    /\ lastIndex' = [lastIndex EXCEPT ![s] = AdvancedIndex(task[s])]
    /\ task' = [task EXCEPT ![s].pc = "done", ![s].wrote = TRUE]
    /\ UNCHANGED <<matchVars, cfgVars, stopVars, liveVars, regVars, mgr, cycles,
                   clock, initTask, inHandle, probe, probeCount>>

-----------------------------------------------------------------------------
(* The tail of processCTEntry and processLiveEvent: the lastSeen update    *)
(* and the loop over the handlers.                                         *)

\* m.mutex.Lock(); watchConfig.LastSeen = time.Now(); m.mutex.Unlock()
UpdateLastSeen(t) ==
    /\ ~panicked /\ task[t].pc = "update"
    /\ heap' = [heap EXCEPT ![task[t].watchConfig].LastSeen = clock]
    /\ task' = [task EXCEPT ![t].pc = "dispatch"]
    /\ UNCHANGED <<matchVars, cfgVars, stopVars, liveVars, lastIndex, watchedDomains,
                   snapshot, call, userAccess, mgr,
                   cycles, clock, initTask, inHandle, probe, probeCount>>

\* The event both paths build once the match is known.
EntryOf(t) ==
    IF t = LiveTask
    THEN createLiveCertificateEntry(task[t].allDomains, task[t].matchedDomain)
    ELSE createCertificateEntry(task[t].allDomains, task[t].matchedDomain,
                                task[t].index, t)

\* handler.Handle(certEntry) is entered
HandleCall(t) ==
    /\ ~panicked /\ task[t].pc = "dispatch"
    /\ task[t].h <= Len(handlers)
    /\ inHandle' = [inHandle EXCEPT ![handlers[task[t].h]] = @ + 1]
    /\ task' = [task EXCEPT ![t].pc = "inHandle",
                            ![t].calls = Append(@, [sink |-> handlers[task[t].h],
                                                    entry |-> EntryOf(t)])]
    /\ UNCHANGED <<matchVars, cfgVars, stopVars, liveVars, lastIndex, regVars, mgr, cycles,
                   clock, initTask, probe, probeCount>>

\* A handler loop that gives up at the first handler error.
NextHandlerStopsOnError(h, failed) == IF failed THEN Len(handlers) + 1 ELSE h + 1

\* The position in m.handlers the loop goes to after handler h returned:
\* an error is logged and the loop goes on.
NextHandler(h, failed) == h + 1

\* handler.Handle returns, with an error or without
HandleReturn(t) ==
    /\ ~panicked /\ task[t].pc = "inHandle"
    /\ inHandle' = [inHandle EXCEPT ![handlers[task[t].h]] = @ - 1]
    /\ \E failed \in BOOLEAN :
          task' = [task EXCEPT ![t].pc = "dispatch",
                                  ![t].h = NextHandler(task[t].h, failed),
                                  ![t].firstErr =
                                      IF failed /\ @ = 0 THEN task[t].h ELSE @]
    /\ UNCHANGED <<matchVars, cfgVars, stopVars, liveVars, lastIndex, regVars, mgr, cycles,
                   clock, initTask, probe, probeCount>>

\* What processCTEntry returns after the handler loop, whether or not a
\* handler failed (firstErr is the position of the first that did, or 0).
DispatchResult(firstErr) == "nil"

\* The handler loop is over: processCTEntry returns to the entry loop,
\* processLiveEvent returns to the select of startLiveMode.
DispatchDone(t) ==
    /\ ~panicked /\ task[t].pc = "dispatch"
    /\ task[t].h > Len(handlers)
    /\ IF t = LiveTask
       THEN /\ task' = [task EXCEPT ![t] = [IdleTask EXCEPT !.ret = DispatchResult(task[t].firstErr),
                                                          !.dispatched = TRUE,
                                                          !.input = task[t].input,
                                                          !.messageType = task[t].messageType]]
            /\ mgr' = "liveSelect"
       ELSE /\ task' = [task EXCEPT ![t] = [NextEntry(@, DispatchResult(@.firstErr))
                                              EXCEPT !.dispatched = TRUE]]
            /\ UNCHANGED mgr
    /\ UNCHANGED <<matchVars, cfgVars, stopVars, liveVars, lastIndex, regVars, cycles,
                   clock, initTask, inHandle, probe, probeCount>>

-----------------------------------------------------------------------------
(* Monitor.startLiveMode and Monitor.processLiveEvent                      *)

LocalFeedURL == "ws://localhost:8080"
DefaultFeedURL == "certstream default URL"

\* The decoded messages the stream delivers: a type tag (or none), and
\* data.leaf_cert (or none) with subject CN and subjectAltName.
MessageTypes == {"certificate_update", "heartbeat", "missing"}

Messages ==
    [messageType : MessageTypes, hasLeafCert : BOOLEAN, cert : Certs]

\* Subject CN when present and not empty, then the non-empty SAN strings.
LiveDomains(msg) ==
    (IF msg.cert.cn # <<>> THEN <<msg.cert.cn>> ELSE <<>>)
    \o SelectSeq(msg.cert.dnsNames, LAMBDA d : d # <<>>)

\* A type check that only drops the messages that carry no type.
WrongTypeOnlyWhenMissing(msg) == msg.messageType = "missing"

\* jq.String("message_type") fails, or messageType != "certificate_update"
WrongType(msg) ==
    \/ msg.messageType = "missing"
    \/ msg.messageType # "certificate_update"

\* The early returns of processLiveEvent before the match step.
LiveDiscarded(msg) ==
    \/ WrongType(msg)
    \/ ~msg.hasLeafCert
    \/ Len(LiveDomains(msg)) = 0

StartLive ==
    /\ ~panicked /\ mgr = "idle" /\ liveMode
    /\ feed' = LocalFeedURL
    /\ mgr' = "liveSelect"
    /\ UNCHANGED <<matchVars, cfgVars, stopVars, liveEvents, reconnects, lastIndex, regVars,
                   cycles, clock, initTask, task, inHandle, probe, probeCount>>

\* select: case <-m.ctx.Done()
LiveCtxDone ==
    /\ ~panicked /\ mgr = "liveSelect"
    /\ ctxDone
    /\ mgr' = "returnedNil"
    /\ UNCHANGED <<matchVars, cfgVars, stopVars, liveVars, lastIndex, regVars,
                   cycles, clock, initTask, task, inHandle, probe, probeCount>>

\* select: case jq := <-stream, then processLiveEvent up to the match step
LiveMessage ==
    /\ ~panicked /\ mgr = "liveSelect"
    /\ liveEvents < MaxLiveEvents
    /\ liveEvents' = liveEvents + 1
    /\ \E msg \in Messages :
         IF LiveDiscarded(msg)
         THEN /\ task' = [task EXCEPT ![LiveTask].input = Input("discarded", << >>),
                                      ![LiveTask].messageType = msg.messageType]
              /\ UNCHANGED mgr
         ELSE \E m \in LiveMatchResults(LiveDomains(msg)) :
                 IF m.matchedDomain = <<>>
                 THEN /\ task' = [task EXCEPT ![LiveTask].input =
                                     Input("cert", LiveDomains(msg)),
                                              ![LiveTask].messageType = msg.messageType]
                      /\ UNCHANGED mgr
                 ELSE /\ task' = [task EXCEPT ![LiveTask] =
                                     [Matched(@, 0, LiveDomains(msg), m) EXCEPT
                                         !.input = Input("cert", LiveDomains(msg)),
                                         !.messageType = msg.messageType]]
                      /\ mgr' = "liveProcess"
    /\ UNCHANGED <<matchVars, cfgVars, stopVars, feed, reconnects, lastIndex, regVars,
                   cycles, clock, initTask, inHandle, probe, probeCount>>

\* A live loop that gives up and returns the feed's error.
AfterFeedErrorGivesUp == "returnedErr"

\* if err != nil { log; time.Sleep(...); resubscribe }: the loop goes on.
AfterFeedError == "liveSleep"

\* select: case err := <-errChan with err != nil (a nil error changes nothing)
LiveError ==
    /\ ~panicked /\ mgr = "liveSelect"
    /\ reconnects < MaxReconnects
    /\ mgr' = AfterFeedError
    /\ UNCHANGED <<matchVars, cfgVars, stopVars, liveVars, lastIndex, regVars,
                   cycles, clock, initTask, task, inHandle, probe, probeCount>>

\* time.Sleep(5 * time.Second) returns, then CertStreamEventStream(false)
LiveSleepDone ==
    /\ ~panicked /\ mgr = "liveSleep"
    /\ feed' = DefaultFeedURL
    /\ reconnects' = reconnects + 1
    /\ clock' = clock + 1
    /\ mgr' = "liveSelect"
    /\ UNCHANGED <<matchVars, cfgVars, stopVars, liveEvents, lastIndex, regVars,
                   cycles, initTask, task, inHandle, probe, probeCount>>

-----------------------------------------------------------------------------

Next ==
    \/ Stop
    \/ StartPollingNoClients
    \/ StartPolling
    \/ SleepDone
    \/ PollCtxDone
    \/ Tick
    \/ WaitDone
    \/ \E s \in Shards : InitSTHFails(s)
    \/ \E s \in Shards : InitSTH(s)
    \/ \E s \in Shards : InitClamp(s)
    \/ \E s \in Shards : PollSTHFails(s)
    \/ \E s \in Shards : PollSTH(s)
    \/ \E s \in Shards : PollCheck(s)
    \/ \E s \in Shards : PollComputeEnd(s)
    \/ \E s \in Shards : PollFetchFails(s)
    \/ \E s \in Shards : PollFetch(s)
    \/ \E s \in Shards : ProcessEntry(s)
    \/ \E s \in Shards : AdvanceCursor(s)
    \/ \E t \in Tasks : UpdateLastSeen(t)
    \/ \E t \in Tasks : HandleCall(t)
    \/ \E t \in Tasks : HandleReturn(t)
    \/ \E t \in Tasks : DispatchDone(t)
    \/ StartLive
    \/ LiveCtxDone
    \/ LiveMessage
    \/ LiveError
    \/ LiveSleepDone

Spec == Init /\ [][Next]_vars

-----------------------------------------------------------------------------
(* The matcher applied to every bounded pair of strings.                   *)

\* The monitor as NewMonitor leaves it, not started.
ParkedMonitor ==
    /\ liveMode = FALSE /\ allDomainsMode = FALSE
    /\ ctClients = {}
    /\ lastIndex = [s \in Shards |-> initialLastIndex]
    /\ watchedDomains = << >> /\ heap = << >>
    /\ snapshot = NoSnapshot /\ call = NoCall /\ userAccess = 0
    /\ handlers = << >>
    /\ ctxDone = FALSE /\ stopChanClosed = FALSE /\ panicked = FALSE /\ stopCalls = 0
    /\ mgr = "idle" /\ cycles = 0 /\ clock = 1
    /\ initTask = [s \in Shards |-> "idle"]
    /\ task = [t \in Tasks |-> IdleTask]
    /\ inHandle = [k \in 1..NumSinks |-> 0]
    /\ probe = 0
    /\ probeCount = [s \in Shards |-> 0]
    /\ feed = "none" /\ liveEvents = 0 /\ reconnects = 0

MatchInit ==
    /\ certDomain \in StringsUpTo(MaxCertLen)
    /\ watchedDomain \in StringsUpTo(MaxWatchLen)
    /\ includeSubdomains \in BOOLEAN
    /\ result = "none"
    /\ ParkedMonitor

CallDomainMatches ==
    /\ result = "none"
    /\ result' = IF domainMatches(certDomain, watchedDomain, includeSubdomains)
                  THEN "true" ELSE "false"
    /\ UNCHANGED <<certDomain, watchedDomain, includeSubdomains, monVars>>

MatchNext == CallDomainMatches

SpecMatch == MatchInit /\ [][MatchNext]_vars

-----------------------------------------------------------------------------
(* The watch registry: AddDomain, RemoveDomain, GetWatchedDomains, called  *)
(* while the live subscription matches certificates against it.            *)

MaxAdds == 2

\* The domain strings the callers pass, in lower and upper case.
Domains == {Str_a, <<"A">>}

\* The address the next &models.DomainWatch{...} gets.
NewAddress == Cardinality(DOMAIN heap) + 1

\* An AddDomain that keeps the flag of an entry that is already there.
StoredFlagKeepsFirst(domain, inclSub) ==
    IF domain \in DOMAIN watchedDomains
    THEN heap[watchedDomains[domain]].IncludeSubdomains ELSE inclSub

\* IncludeSubdomains: includeSubdomains
StoredFlag(domain, inclSub) == inclSub

\* m.watchedDomains[domain] = &models.DomainWatch{...}: the key is the
\* string as passed and the entry is a new object, existing key or not.
AddDomain(domain, inclSub) ==
    /\ ~panicked
    /\ Cardinality(DOMAIN heap) < MaxAdds
    /\ clock' = clock + 1
    /\ heap' = heap @@ (NewAddress :>
                   NewDomainWatch(domain, StoredFlag(domain, inclSub), clock'))
    /\ watchedDomains' = [k \in DOMAIN watchedDomains \cup {domain} |->
                             IF k = domain THEN NewAddress ELSE watchedDomains[k]]
    /\ call' = [op |-> "Add", domain |-> domain, inclSub |-> inclSub,
                before |-> DOMAIN watchedDomains]
    /\ UNCHANGED <<matchVars, cfgVars, stopVars, liveVars, lastIndex, snapshot, userAccess, mgr,
                   cycles, initTask, task, inHandle, probe, probeCount>>

\* A RemoveDomain that deletes nothing.
KeysRemovedNone(domain) == {}

\* A RemoveDomain that looks the key up without regard to case.
KeysRemovedIgnoringCase(domain) ==
    {k \in DOMAIN watchedDomains : ToLower(k) = ToLower(domain)}

\* if _, exists := m.watchedDomains[domain]; exists { delete(...) }
KeysRemoved(domain) == {domain} \cap DOMAIN watchedDomains

RemoveDomain(domain) ==
    /\ ~panicked
    /\ watchedDomains' = [k \in DOMAIN watchedDomains \ KeysRemoved(domain) |->
                             watchedDomains[k]]
    /\ call' = [op |-> "Remove", domain |-> domain, inclSub |-> FALSE,
                before |-> DOMAIN watchedDomains]
    /\ UNCHANGED <<matchVars, cfgVars, stopVars, liveVars, lastIndex, heap, snapshot, userAccess,
                   mgr, cycles, clock, initTask, task, inHandle, probe, probeCount>>

\* result[k] = v for every key: a new map holding the registry's pointers.
GetWatchedDomains ==
    /\ ~panicked
    /\ snapshot' = [taken |-> TRUE, map |-> watchedDomains]
    /\ call' = [op |-> "Snapshot", domain |-> << >>, inclSub |-> FALSE,
                before |-> DOMAIN watchedDomains]
    /\ UNCHANGED <<matchVars, cfgVars, stopVars, liveVars, lastIndex, watchedDomains,
                   heap, userAccess, mgr, cycles, clock, initTask, task, inHandle,
                   probe, probeCount>>

\* The caller of GetWatchedDomains writes a field through a pointer of the
\* map it was given.
CallerWritesSnapshot ==
    /\ ~panicked /\ snapshot.taken
    /\ \E k \in DOMAIN snapshot.map :
          /\ heap[snapshot.map[k]].Active
          /\ heap' = [heap EXCEPT ![snapshot.map[k]].Active = FALSE]
    /\ UNCHANGED <<matchVars, cfgVars, stopVars, liveVars, lastIndex, watchedDomains,
                   snapshot, call, userAccess, mgr, cycles, clock, initTask, task,
                   inHandle, probe, probeCount>>

\* NewMonitor, SetLiveMode(true): no handler yet, the registry is empty.
RegistryInit ==
    /\ certDomain = <<>> /\ watchedDomain = <<>>
    /\ includeSubdomains = FALSE /\ result = "none"
    /\ liveMode = TRUE /\ allDomainsMode = FALSE
    /\ ctClients = {}
    /\ lastIndex = [s \in Shards |-> initialLastIndex]
    /\ watchedDomains = << >> /\ heap = << >>
    /\ snapshot = NoSnapshot /\ call = NoCall /\ userAccess = 0
    /\ handlers = << >>
    /\ ctxDone = FALSE /\ stopChanClosed = FALSE /\ panicked = FALSE /\ stopCalls = 0
    /\ mgr = "idle" /\ cycles = 0 /\ clock = 1
    /\ initTask = [s \in Shards |-> "idle"]
    /\ task = [t \in Tasks |-> IdleTask]
    /\ inHandle = [k \in 1..NumSinks |-> 0]
    /\ probe = 0
    /\ probeCount = [s \in Shards |-> 0]
    /\ feed = "none" /\ liveEvents = 0 /\ reconnects = 0

RegistryNext ==
    \/ \E d \in Domains, inclSub \in BOOLEAN : AddDomain(d, inclSub)
    \/ \E d \in Domains : RemoveDomain(d)
    \/ GetWatchedDomains
    \/ CallerWritesSnapshot
    \/ StartLive
    \/ LiveMessage
    \/ UpdateLastSeen(LiveTask)
    \/ DispatchDone(LiveTask)

SpecRegistry == RegistryInit /\ [][RegistryNext]_vars

-----------------------------------------------------------------------------
(* A user of the map GetWatchedDomains returned reads its entries while    *)
(* the live subscription matches certificates.  AddDomain, RemoveDomain,   *)
(* GetWatchedDomains, the match step and the LastSeen update hold          *)
(* m.mutex for their whole access and are single steps; the user holds no  *)
(* lock, so its read of an entry has a beginning and an end.               *)

\* The user starts reading the fields of an entry of its map (as runList
\* does when it prints the entries).
CallerReadsEntry ==
    /\ ~panicked /\ snapshot.taken
    /\ userAccess = 0
    /\ \E k \in DOMAIN snapshot.map : userAccess' = snapshot.map[k]
    /\ UNCHANGED <<matchVars, cfgVars, stopVars, liveVars, lastIndex, watchedDomains,
                   heap, snapshot, call, mgr, cycles, clock, initTask, task, inHandle,
                   probe, probeCount>>

CallerReadDone ==
    /\ ~panicked
    /\ userAccess # 0
    /\ userAccess' = 0
    /\ UNCHANGED <<matchVars, cfgVars, stopVars, liveVars, lastIndex, watchedDomains,
                   heap, snapshot, call, mgr, cycles, clock, initTask, task, inHandle,
                   probe, probeCount>>

\* NewMonitor, SetLiveMode(true), AddDomain("a", true): no handler.
SnapshotUseInit ==
    /\ certDomain = <<>> /\ watchedDomain = <<>>
    /\ includeSubdomains = FALSE /\ result = "none"
    /\ liveMode = TRUE /\ allDomainsMode = FALSE
    /\ ctClients = {}
    /\ lastIndex = [s \in Shards |-> initialLastIndex]
    /\ watchedDomains = (Str_a :> 1)
    /\ heap = (1 :> NewDomainWatch(Str_a, TRUE, 1))
    /\ snapshot = NoSnapshot /\ call = NoCall /\ userAccess = 0
    /\ handlers = << >>
    /\ ctxDone = FALSE /\ stopChanClosed = FALSE /\ panicked = FALSE /\ stopCalls = 0
    /\ mgr = "idle" /\ cycles = 0 /\ clock = 1
    /\ initTask = [s \in Shards |-> "idle"]
    /\ task = [t \in Tasks |-> IdleTask]
    /\ inHandle = [k \in 1..NumSinks |-> 0]
    /\ probe = 0
    /\ probeCount = [s \in Shards |-> 0]
    /\ feed = "none" /\ liveEvents = 0 /\ reconnects = 0

SnapshotUseNext ==
    \/ \E d \in Domains, inclSub \in BOOLEAN : AddDomain(d, inclSub)
    \/ \E d \in Domains : RemoveDomain(d)
    \/ GetWatchedDomains
    \/ CallerReadsEntry
    \/ CallerReadDone
    \/ StartLive
    \/ LiveMessage
    \/ UpdateLastSeen(LiveTask)
    \/ DispatchDone(LiveTask)

SpecSnapshotUse == SnapshotUseInit /\ [][SnapshotUseNext]_vars

-----------------------------------------------------------------------------
(* All-domains mode, polling one small shard or reading the live feed.     *)

\* NewMonitor, SetAllDomainsMode(true), one handler; with or without a
\* watched domain in the registry.
AllDomainsInit ==
    /\ certDomain = <<>> /\ watchedDomain = <<>>
    /\ includeSubdomains = FALSE /\ result = "none"
    /\ liveMode \in BOOLEAN
    /\ allDomainsMode = TRUE
    /\ ctClients = {"log2"}
    /\ lastIndex = [s \in Shards |-> initialLastIndex]
    /\ watchedDomains \in {<< >>, (Str_a :> 1)}
    /\ heap = [a \in DOMAIN watchedDomains |-> NewDomainWatch(Str_a, TRUE, 1)]
    /\ snapshot = NoSnapshot /\ call = NoCall /\ userAccess = 0
    /\ handlers = <<1>>
    /\ ctxDone = FALSE /\ stopChanClosed = FALSE /\ panicked = FALSE /\ stopCalls = 0
    /\ mgr = "idle" /\ cycles = 0 /\ clock = 1
    /\ initTask = [s \in Shards |-> "idle"]
    /\ task = [t \in Tasks |-> IdleTask]
    /\ inHandle = [k \in 1..NumSinks |-> 0]
    /\ probe = 0
    /\ probeCount = [s \in Shards |-> 0]
    /\ feed = "none" /\ liveEvents = 0 /\ reconnects = 0

AllDomainsNext ==
    \/ StartPolling
    \/ SleepDone
    \/ Tick
    \/ WaitDone
    \/ \E s \in Shards : InitSTHFails(s)
    \/ \E s \in Shards : InitSTH(s)
    \/ \E s \in Shards : InitClamp(s)
    \/ \E s \in Shards : PollSTHFails(s)
    \/ \E s \in Shards : PollSTH(s)
    \/ \E s \in Shards : PollCheck(s)
    \/ \E s \in Shards : PollComputeEnd(s)
    \/ \E s \in Shards : PollFetchFails(s)
    \/ \E s \in Shards : PollFetch(s)
    \/ \E s \in Shards : ProcessEntry(s)
    \/ \E s \in Shards : AdvanceCursor(s)
    \/ \E t \in Tasks : HandleCall(t)
    \/ \E t \in Tasks : HandleReturn(t)
    \/ \E t \in Tasks : DispatchDone(t)
    \/ StartLive
    \/ LiveMessage
    \/ LiveError
    \/ LiveSleepDone

SpecAllDomains == AllDomainsInit /\ [][AllDomainsNext]_vars

-----------------------------------------------------------------------------
(* Two small shards polled side by side, from the select of                *)
(* startPollingMode on: both starting points are initialized.              *)

\* The shards of the two-shard run.
SmallShards == {"log2", "log3"}

\* The entry indices the observer can follow in the two-shard run: both
\* entries of a log of size 2.
ShardProbeIndices == {0, 1}

\* startPollingMode at its select, after the startup wait: both
\* initializations have ended and left the cursor at 0 (logs smaller than
\* the lookback, or a failed startup get-sth).
ShardsInit ==
    /\ certDomain = <<>> /\ watchedDomain = <<>>
    /\ includeSubdomains = FALSE /\ result = "none"
    /\ liveMode = FALSE
    /\ allDomainsMode = FALSE
    /\ ctClients = SmallShards
    /\ lastIndex = [s \in Shards |-> IF s \in SmallShards THEN 0 ELSE initialLastIndex]
    /\ watchedDomains = (Str_a :> 1)
    /\ heap = (1 :> NewDomainWatch(Str_a, TRUE, 1))
    /\ snapshot = NoSnapshot /\ call = NoCall /\ userAccess = 0
    /\ handlers = [k \in 1..NumSinks |-> k]
    /\ ctxDone = FALSE /\ stopChanClosed = FALSE /\ panicked = FALSE /\ stopCalls = 0
    /\ mgr = "select" /\ cycles = 0 /\ clock = 2
    /\ initTask = [s \in Shards |-> IF s \in SmallShards THEN "done" ELSE "idle"]
    /\ task = [t \in Tasks |-> IdleTask]
    /\ inHandle = [k \in 1..NumSinks |-> 0]
    /\ probe \in ShardProbeIndices
    /\ probeCount = [s \in Shards |-> 0]
    /\ feed = "none" /\ liveEvents = 0 /\ reconnects = 0

ShardsNext ==
    \/ Tick
    \/ WaitDone
    \/ \E s \in Shards : PollSTHFails(s)
    \/ \E s \in Shards : PollSTH(s)
    \/ \E s \in Shards : PollCheck(s)
    \/ \E s \in Shards : PollComputeEnd(s)
    \/ \E s \in Shards : PollFetchFails(s)
    \/ \E s \in Shards : PollFetch(s)
    \/ \E s \in Shards : ProcessEntry(s)
    \/ \E s \in Shards : AdvanceCursor(s)
    \/ \E t \in Tasks : UpdateLastSeen(t)
    \/ \E t \in Tasks : HandleCall(t)
    \/ \E t \in Tasks : HandleReturn(t)
    \/ \E t \in Tasks : DispatchDone(t)

SpecShards == ShardsInit /\ [][ShardsNext]_vars

-----------------------------------------------------------------------------
(* The two modes side by side: one run polls a small shard, the other      *)
(* reads the live feed, over the same registries and both settings of the  *)
(* all-domains flag.                                                       *)

\* The registries a caller can build before Start the way cmd/monitor.go
\* does: one AddDomain per domain, all with the same include-subdomains
\* flag (cmd/monitor.go itself adds none in all-domains mode).
CommandLineRegistries ==
    UNION {
        { [watchedDomains |-> << >>, heap |-> << >>],
          [watchedDomains |-> (Str_a :> 1),
           heap |-> (1 :> NewDomainWatch(Str_a, f, 1))],
          [watchedDomains |-> (<<"A">> :> 1),
           heap |-> (1 :> NewDomainWatch(<<"A">>, f, 1))],
          [watchedDomains |-> (Str_a :> 1) @@ (<<"A">> :> 2),
           heap |-> (1 :> NewDomainWatch(Str_a, f, 1)) @@
                    (2 :> NewDomainWatch(<<"A">>, f, 1))] } : f \in BOOLEAN }

\* Live mode before Start; polling mode at the select of startPollingMode
\* with the starting point of the shard initialized.
ModesInit ==
    /\ certDomain = <<>> /\ watchedDomain = <<>>
    /\ includeSubdomains = FALSE /\ result = "none"
    /\ liveMode \in BOOLEAN
    /\ allDomainsMode \in BOOLEAN
    /\ ctClients = {"log2"}
    /\ lastIndex = [s \in Shards |->
                      IF ~liveMode /\ s = "log2" THEN 0 ELSE initialLastIndex]
    /\ \E r \in CommandLineRegistries :
          watchedDomains = r.watchedDomains /\ heap = r.heap
    /\ snapshot = NoSnapshot /\ call = NoCall /\ userAccess = 0
    /\ handlers = <<1>>
    /\ ctxDone = FALSE /\ stopChanClosed = FALSE /\ panicked = FALSE /\ stopCalls = 0
    /\ mgr = IF liveMode THEN "idle" ELSE "select"
    /\ cycles = 0
    /\ clock = IF liveMode THEN 1 ELSE 2
    /\ initTask = [s \in Shards |-> IF ~liveMode /\ s = "log2" THEN "done" ELSE "idle"]
    /\ task = [t \in Tasks |-> IdleTask]
    /\ inHandle = [k \in 1..NumSinks |-> 0]
    /\ probe = 0
    /\ probeCount = [s \in Shards |-> 0]
    /\ feed = "none" /\ liveEvents = 0 /\ reconnects = 0

ModesNext ==
    \/ Tick
    \/ WaitDone
    \/ \E s \in Shards : PollSTHFails(s)
    \/ \E s \in Shards : PollSTH(s)
    \/ \E s \in Shards : PollCheck(s)
    \/ \E s \in Shards : PollComputeEnd(s)
    \/ \E s \in Shards : PollFetchFails(s)
    \/ \E s \in Shards : PollFetch(s)
    \/ \E s \in Shards : ProcessEntry(s)
    \/ \E s \in Shards : AdvanceCursor(s)
    \/ \E t \in Tasks : UpdateLastSeen(t)
    \/ \E t \in Tasks : HandleCall(t)
    \/ \E t \in Tasks : HandleReturn(t)
    \/ \E t \in Tasks : DispatchDone(t)
    \/ StartLive
    \/ LiveMessage
    \/ LiveSleepDone
    \/ LiveError

SpecModes == ModesInit /\ [][ModesNext]_vars

-----------------------------------------------------------------------------
(* Properties.                                                             *)

\* The matching rule written down independently of domainMatches: both
\* names are lower-cased and trimmed; a name matches when it equals the
\* watched name or, with subdomains included, is some text followed by a
\* dot and the watched name.
Normalized(str) == TrimSpace(ToLower(str))

EndsWithDotThen(c, w) ==
    \E k \in 0..Len(c) : c = SubSeq(c, 1, k) \o <<".">> \o w

PlainRule(c, w, inclSub) == c = w \/ (inclSub /\ EndsWithDotThen(c, w))

StartsWithStarDot(c) == Len(c) >= 2 /\ c[1] = "*" /\ c[2] = "."

MatchRule(cert, watched, inclSub) ==
    LET c == Normalized(cert)
        w == Normalized(watched)
    IN  \/ PlainRule(c, w, inclSub)
        \/ StartsWithStarDot(c) /\ PlainRule(Tail(Tail(c)), w, inclSub)

\* C1: domainMatches(cert, watched, includeSubdomains) is true exactly when,
\* after lower-casing and trimming both names, cert equals watched, or
\* subdomains are included and cert ends with "." followed by watched, or
\* cert starts with "*." and what follows the "*." satisfies one of those
\* two conditions.
C1_DomainMatchesRule ==
    result # "none" =>
        ((result = "true") <=>
            MatchRule(certDomain, watchedDomain, includeSubdomains))

\* A wildcard name with surrounding space and upper case matches its base
\* domain exactly, subdomains not included.
C1_Witness ==
    /\ result = "true"
    /\ ~includeSubdomains
    /\ certDomain = <<" ", "*", ".", "A">>
    /\ watchedDomain = <<"a">>

Min2(a, b) == IF a <= b THEN a ELSE b

\* C2: when a polling worker finishes a cycle whose fetch succeeded, it
\* leaves the shard's cursor at exactly end = min(cursor + 50, tree size),
\* cursor and tree size being the values the cycle read, whatever the
\* entries of the batch returned and whatever the sinks answered.
C2_CursorAdvancesToEnd ==
    [][\A s \in Shards :
          (task[s].pc = "loop" /\ task'[s].pc = "done") =>
              /\ lastIndex'[s] = task[s].endIndex
              /\ task[s].endIndex =
                     Min2(task[s].cursor + batchSize, task[s].currentSize)]_vars

\* A full batch in which nothing was dispatched and whose last entry
\* returned an error has been completed and the cursor moved to its end.
C2_Witness ==
    \E s \in Shards :
        /\ task[s].pc = "done" /\ task[s].wrote
        /\ task[s].n = batchSize
        /\ task[s].ret = "unknown entry type"
        /\ ~task[s].dispatched
        /\ lastIndex[s] = task[s].cursor + batchSize

\* C3: a polling cycle that fails at the tree-head fetch or at the entries
\* fetch has processed no entry and written no cursor; the failing step
\* leaves the cursor as it is, no polling step changes the cursor of a
\* failed shard (only the shard's own startup initialization writes it),
\* and the next tick polls every shard again, the failed ones included.
C3_FailedCycleKeepsCursor ==
    /\ [](\A s \in Shards :
             task[s].pc = "failed" =>
                 ~task[s].wrote /\ ~task[s].dispatched /\ task[s].i = 0)
    /\ [][\A s \in Shards :
             (task[s].pc # "failed" /\ task'[s].pc = "failed") =>
                 lastIndex'[s] = lastIndex[s]]_vars
    /\ [][\A s \in Shards :
             (task[s].pc = "failed" /\ lastIndex'[s] # lastIndex[s]) =>
                 initTask'[s] # initTask[s]]_vars
    /\ [][(mgr = "select" /\ mgr' = "wait") =>
             \A s \in ctClients : task'[s].pc = "getSTH"]_vars

\* The entries fetch of the second cycle failed and the cursor is the one
\* the cycle computed its range from.
C3_Witness ==
    \E s \in Shards :
        /\ task[s].pc = "failed"
        /\ cycles = 2
        /\ task[s].endIndex > 0
        /\ lastIndex[s] = task[s].cursor
        /\ lastIndex[s] > 0

\* C4: a shard's cursor never decreases.
C4_CursorNeverDecreases ==
    [][\A s \in Shards : lastIndex'[s] >= lastIndex[s]]_vars

\* C5: no entry index of a shard is handed to the processing step twice.
C5_NoIndexProcessedTwice ==
    \A s \in Shards : probeCount[s] <= 1

\* C6: the range a polling cycle requests is [cursor, end) with
\* end = min(cursor + 50, tree size): at most 50 indices, none at or
\* beyond the tree size just observed.
C6_RequestedRangeBounded ==
    \A s \in Shards :
        task[s].pc \in {"loop", "update", "dispatch", "inHandle"} =>
            /\ task[s].start = task[s].cursor
            /\ task[s].endIndex =
                   Min2(task[s].start + batchSize, task[s].currentSize)
            /\ task[s].endIndex - task[s].start <= batchSize
            /\ task[s].endIndex <= task[s].currentSize

\* The processing step of task t returns after its handler loop.
ReturnsFromDispatch(t) ==
    /\ task[t].pc = "dispatch"
    /\ task'[t].pc \in {"loop", "idle"}
    /\ task'[t].dispatched

\* C7: for a matched event, polling or live, the handlers are called in
\* registration order, each once and each with the event's entry; an error
\* of one handler neither stops the later ones nor makes the processing
\* step return an error.
C7_EverySinkCalledOnce ==
    /\ [](\A t \in Tasks :
             task[t].pc \in {"dispatch", "inHandle"} =>
                 /\ Len(task[t].calls) <= Len(handlers)
                 /\ \A k \in 1..Len(task[t].calls) :
                        /\ task[t].calls[k].sink = handlers[k]
                        /\ task[t].calls[k].entry = EntryOf(t))
    /\ [][\A t \in Tasks :
             ReturnsFromDispatch(t) =>
                 /\ Len(task[t].calls) = Len(handlers)
                 /\ task'[t].ret = "nil"]_vars

\* The first handler failed and the second one was called all the same.
C7_Witness ==
    \E t \in Tasks :
        /\ task[t].pc = "dispatch"
        /\ task[t].firstErr = 1
        /\ Len(task[t].calls) = NumSinks
        /\ task[t].h > Len(handlers)

\* C8: Stop may be called any number of times; calls after the first change
\* nothing and do not panic.
C8_StopIdempotent ==
    stopCalls >= 2 => (~panicked /\ ctxDone)

\* C9: one Stop on a monitor that was never started does not panic and
\* leaves the cancellation signal set.
C9_StopBeforeStart ==
    (stopCalls = 1 /\ mgr = "idle") => (ctxDone /\ ~panicked)

C9_Witness ==
    /\ stopCalls = 1
    /\ mgr = "idle"
    /\ ctxDone
    /\ stopChanClosed

\* The waits of the monitor's main task.
Waits == {"sleep", "select", "liveSelect", "liveSleep"}

\* C10: once the cancellation signal is set, a wait of the monitor (startup
\* wait, timer tick, stream read, reconnect sleep) is left only by
\* returning because of the cancellation, never by completing the wait.
C10_WaitsEndByCancellation ==
    [][(ctxDone /\ mgr \in Waits /\ mgr' # mgr /\ ~panicked') =>
           mgr' = "returnedNil"]_vars

\* The flag stored with a watched key.
FlagOf(w) == heap[watchedDomains[w]].IncludeSubdomains

\* Candidate c matches some watched domain.
MatchesAny(c) == \E w \in DOMAIN watchedDomains : domainMatches(c, w, FlagOf(w))

\* The position of the earliest candidate that matches a watched domain
\* (0 when none does).
EarliestMatching(cands) ==
    IF \E k \in 1..Len(cands) : MatchesAny(cands[k])
    THEN CHOOSE k \in 1..Len(cands) :
             MatchesAny(cands[k]) /\ \A j \in 1..(k - 1) : ~MatchesAny(cands[j])
    ELSE 0

\* C11: in watch-list mode a processed certificate yields at most one
\* event, and its matchedDomain is a watched domain that matches the
\* earliest candidate (common name first, then the SANs in order) matching
\* any watched domain; a later candidate never decides, even when it
\* matches other watched domains.
C11_EarliestCandidateWins ==
    /\ [][\A t \in Tasks :
             (task[t].pc # "update" /\ task'[t].pc = "update") =>
                 LET cands == task'[t].allDomains
                     m == task'[t].matchedDomain
                     k == EarliestMatching(cands)
                 IN  /\ k > 0
                     /\ m \in DOMAIN watchedDomains
                     /\ task'[t].watchConfig = watchedDomains[m]
                     /\ domainMatches(cands[k], m, FlagOf(m))]_vars
    /\ [][(task[LiveTask].pc = "dispatch" /\ task'[LiveTask].pc = "idle") =>
             (mgr = "liveProcess" /\ mgr' = "liveSelect")]_vars

\* The common name matches only the key "a" (subdomains included), the SAN
\* matches both keys, and "a" was reported.
C11_Witness ==
    /\ task[LiveTask].pc = "update"
    /\ task[LiveTask].allDomains = <<Str_sub, Str_a>>
    /\ task[LiveTask].matchedDomain = Str_a
    /\ DOMAIN watchedDomains = {Str_a, <<"A">>}
    /\ FlagOf(Str_a) /\ ~FlagOf(<<"A">>)

\* C12: every event the polling manager hands to a handler carries the
\* shard it was read from as its source identifier and the entry's absolute
\* index in that shard as its source sequence index.
C12_EventTaggedWithShardAndIndex ==
    \A s \in Shards :
        \A k \in 1..Len(task[s].calls) :
            /\ task[s].calls[k].entry.LogURL = s
            /\ task[s].calls[k].entry.Index = task[s].index

\* The entry values seen through the registry and through the map a
\* GetWatchedDomains caller holds.
RegistryView == [k \in DOMAIN watchedDomains |-> heap[watchedDomains[k]]]

SnapshotView == [k \in DOMAIN snapshot.map |-> heap[snapshot.map[k]]]

\* C13: the map returned by GetWatchedDomains shares no mutable state with
\* the registry: no step changes both what the snapshot shows and what the
\* registry holds, so an AddDomain, RemoveDomain or lastSeen update never
\* shows through an earlier snapshot and a caller's write to a snapshot
\* entry never reaches the registry.
C13_SnapshotSharesNothing ==
    [][(snapshot.taken /\ snapshot' = snapshot) =>
           (SnapshotView' = SnapshotView \/ RegistryView' = RegistryView)]_vars

\* C14: after any sequence of AddDomain and RemoveDomain calls with
\* domain strings in any case, every registry key equals its entry's Domain
\* field and is lower-case, and no two keys differ only by case.
C14_KeysLowerCased ==
    /\ \A k \in DOMAIN watchedDomains :
          /\ heap[watchedDomains[k]].Domain = k
          /\ k = ToLower(k)
    /\ \A k1, k2 \in DOMAIN watchedDomains :
          ToLower(k1) = ToLower(k2) => k1 = k2

\* C15: for a watched domain that stays registered, LastSeen never goes
\* backwards and never returns to unset (0), whatever matches and AddDomain
\* calls happen, a repeated AddDomain of the domain included.
C15_LastSeenMonotonic ==
    [][\A k \in DOMAIN watchedDomains \cap DOMAIN watchedDomains' :
           RegistryView'[k].LastSeen >= RegistryView[k].LastSeen]_vars

\* The step is an AddDomain call: a DomainWatch object was created.
AddStep == DOMAIN heap' # DOMAIN heap

\* C16: on an empty registry, AddDomain(d, s) followed by GetWatchedDomains
\* yields exactly one entry, keyed by d, with Domain = d,
\* IncludeSubdomains = s, Active = true and CreatedAt set.
C16_AddThenSnapshot ==
    [][(call.op = "Add" /\ call.before = {} /\ call'.op = "Snapshot") =>
           /\ DOMAIN snapshot'.map = {call.domain}
           /\ LET e == SnapshotView'[call.domain]
              IN  /\ e.Domain = call.domain
                  /\ e.IncludeSubdomains = call.inclSub
                  /\ e.Active
                  /\ e.CreatedAt > 0]_vars

C16_Witness ==
    /\ call.op = "Snapshot"
    /\ Cardinality(DOMAIN heap) = 1
    /\ DOMAIN snapshot.map = {<<"A">>}
    /\ heap[snapshot.map[<<"A">>]].IncludeSubdomains
    /\ heap[snapshot.map[<<"A">>]].Active

\* C17: AddDomain(d, s1) followed by AddDomain(d, s2) leaves the key set
\* of the single AddDomain, one entry for d, and that entry's
\* IncludeSubdomains is s2.
C17_AddTwiceLastFlagWins ==
    [][(AddStep /\ call.op = "Add" /\ call.domain = call'.domain) =>
           /\ DOMAIN watchedDomains' = DOMAIN watchedDomains
           /\ DOMAIN watchedDomains' = call.before \cup {call.domain}
           /\ RegistryView'[call'.domain].IncludeSubdomains = call'.inclSub
           /\ RegistryView'[call'.domain].Domain = call'.domain]_vars

\* "a" was added with subdomains, then again without.
C17_Witness ==
    /\ call.op = "Add" /\ call.domain = Str_a /\ ~call.inclSub
    /\ Cardinality(DOMAIN heap) = 2
    /\ heap[1].Domain = Str_a /\ heap[1].IncludeSubdomains
    /\ DOMAIN watchedDomains = {Str_a}
    /\ ~FlagOf(Str_a)

\* C18: AddDomain(d, s) followed by RemoveDomain(d), on a registry that did
\* not contain d, returns the registry to the key set it had before; from
\* empty it is empty again.
C18_AddThenRemove ==
    [][(call.op = "Add" /\ call.domain \notin call.before
            /\ call'.op = "Remove" /\ call'.domain = call.domain) =>
           DOMAIN watchedDomains' = call.before]_vars

\* "A" was registered, "a" was added and removed again.
C18_Witness ==
    /\ call.op = "Remove" /\ call.domain = Str_a
    /\ call.before = {Str_a, <<"A">>}
    /\ DOMAIN watchedDomains = {<<"A">>}

\* C19: RemoveDomain(d) for a d that is not a registry key leaves the
\* registry unchanged: same keys, and for each key the same entry fields.
C19_RemoveAbsentIsNoOp ==
    [][(call'.op = "Remove" /\ call' # call
            /\ call'.domain \notin DOMAIN watchedDomains) =>
           /\ watchedDomains' = watchedDomains
           /\ RegistryView' = RegistryView]_vars

\* "a" was removed from a registry that holds "A" only.
C19_Witness ==
    /\ call.op = "Remove" /\ call.domain = Str_a
    /\ call.before = {<<"A">>}
    /\ DOMAIN watchedDomains = {<<"A">>}

\* C20: Start in polling mode with no shard returns an error at once: no
\* initialization task and no polling worker is launched, no cycle is run,
\* and the outcome is the error even when the monitor is already
\* cancelled, not the nil of a cancelled run.
C20_NoShardsIsAnError ==
    /\ [](mgr = "returnedErr" =>
             /\ ctClients = {} /\ ~liveMode /\ cycles = 0
             /\ \A s \in Shards : initTask[s] = "idle"
             /\ \A t \in Tasks : task[t].pc = "idle")
    /\ []((~liveMode /\ ctClients = {}) => mgr \in {"idle", "returnedErr", "crashed"})
    /\ [][(mgr = "idle" /\ mgr' # "idle" /\ ~liveMode /\ ctClients = {} /\ ~panicked') =>
             /\ mgr' = "returnedErr"
             /\ initTask' = initTask /\ task' = task /\ cycles' = cycles]_vars

\* Start was called without shards after the monitor had been stopped.
C20_Witness ==
    /\ mgr = "returnedErr"
    /\ ctClients = {}
    /\ ctxDone

\* C21: in live mode an error of the feed sends the loop into the fixed
\* backoff wait, the wait ends in a new subscription, and this repeats for
\* consecutive errors; Start in live mode returns only nil and only when
\* the monitor is cancelled, never because of a feed error.
C21_LiveAlwaysReconnects ==
    /\ [](liveMode => mgr # "returnedErr")
    /\ []((liveMode /\ mgr = "returnedNil") => ctxDone)
    /\ [][(mgr = "liveSelect" /\ mgr' \notin {"liveSelect", "liveProcess"}
               /\ ~ctxDone /\ ~panicked') =>
             mgr' = "liveSleep"]_vars
    /\ [][(mgr = "liveSleep" /\ mgr' # mgr /\ ~panicked') =>
             /\ mgr' = "liveSelect"
             /\ feed' \in {LocalFeedURL, DefaultFeedURL}
             /\ reconnects' = reconnects + 1]_vars

\* The feed failed again after a first reconnect and was subscribed anew.
C21_Witness ==
    /\ liveMode /\ mgr = "liveSelect"
    /\ reconnects = 2
    /\ feed # "none"
    /\ ~ctxDone

\* Task t has just been given an input: an entry of its batch, or a
\* message of the stream.
Processes(t) ==
    IF t = LiveTask
    THEN liveEvents' = liveEvents + 1
    ELSE /\ task[t].pc = "loop"
         /\ \/ task'[t].pc \in {"update", "dispatch"}
            \/ task'[t].pc = "loop" /\ task'[t].i = task[t].i + 1

\* The input is a certificate that parsed (a certificate-update message
\* with its certificate data, in live mode).
IsCertificate(in) == in.kind = "cert"

HasCandidate(in) == IsCertificate(in) /\ Len(in.domains) > 0

C23_NoWriteDuringRead ==
    [][userAccess # 0 => heap'[userAccess] = heap[userAccess]]_vars

\* The steps of a polling worker from its first read of the cursor to its
\* last use of it, and the step of the initialization task between its
\* write of treeSize - 100 and its clamp.
WorkerUsesCursor(s) ==
    task[s].pc \in {"computeEnd", "fetch", "loop", "update", "dispatch", "inHandle"}

InitUsesCursor(s) == initTask[s] = "clamp"

\* C24: a shard's cursor is never in use by two tasks at the same time,
\* in any interleaving of the initialization tasks and the polling workers.
C24_CursorHasOneUser ==
    \A s \in Shards : ~(InitUsesCursor(s) /\ WorkerUsesCursor(s))

\* C25: subdomain matching requires the "." separator: when the
\* certificate name (lower-cased and trimmed) has the watched name as a
\* plain suffix but is neither equal to it nor ends with "." followed by
\* it, domainMatches is false for both values of the flag, with or without
\* a leading "*.".
C25_SeparatorRequired ==
    LET c == Normalized(certDomain)
        w == Normalized(watchedDomain)
    IN  (/\ result # "none"
         /\ Len(c) >= Len(w)
         /\ SubSeq(c, Len(c) - Len(w) + 1, Len(c)) = w
         /\ c # w
         /\ ~EndsWithDotThen(c, w))
        => result = "false"

\* "*.aa" against "a" with subdomains included: no match.
C25_Witness ==
    /\ result = "false"
    /\ includeSubdomains
    /\ certDomain = <<"*", ".", "a", "A">>
    /\ watchedDomain = <<"a">>

\* The cursors the startup initialization of shard s can end with:
\* max(treeSize - 100, 0) for a tree size it may have fetched.
InitialCursors(s) ==
    {IF treeSize - lookback > 0 THEN treeSize - lookback ELSE 0 :
         treeSize \in TreeSizes(s)}

\* C26: the cursor the first polling cycle reads for a shard is
\* max(treeSize - 100, 0) for the tree size fetched at initialization.
C26_FirstCycleStartsInitialized ==
    \A s \in Shards :
        (cycles = 1 /\ task[s].pc \in {"fetch", "loop", "update", "dispatch", "inHandle"})
            => task[s].cursor \in InitialCursors(s)

\* The worker of shard s leaves the check of tree size against cursor.
LeavesCheck(s) == task[s].pc = "check" /\ task'[s].pc # "check" /\ ~panicked'

\* C27: a polling cycle that finds the shard's tree size less than or equal
\* to its cursor is a no-op for the shard: the worker returns without
\* fetching an entry and without dispatching, and leaves cursor and
\* registry as they are.
C27_NoNewEntriesIsNoOp ==
    /\ [][\A s \in Shards :
             (LeavesCheck(s) /\ task[s].currentSize <= lastIndex[s]) =>
                 /\ task'[s].pc = "done"
                 /\ lastIndex' = lastIndex
                 /\ watchedDomains' = watchedDomains /\ heap' = heap]_vars
    /\ [](\A s \in Shards :
             (task[s].pc = "done" /\ ~task[s].wrote) =>
                 /\ task[s].n = 0 /\ task[s].i = 0
                 /\ ~task[s].dispatched
                 /\ task[s].input = NoInput
                 /\ task[s].calls = << >>)

\* The second cycle found the tree where the first cycle had left the cursor.
C27_Witness ==
    \E s \in Shards :
        /\ cycles = 2
        /\ task[s].pc = "done" /\ ~task[s].wrote
        /\ task[s].currentSize = lastIndex[s]
        /\ initTask[s] = "done"

\* C28: polling cycles never overlap. A new cycle starts only from the
\* select, when every shard task of the cycle before has returned, and it
\* starts exactly one task per shard; a shard task is running only while
\* the manager is inside wg.Wait().
Running(s) == task[s].pc \notin {"idle", "done", "failed"}

C28_CyclesNeverOverlap ==
    /\ [][cycles' # cycles =>
              /\ cycles' = cycles + 1
              /\ mgr = "select" /\ mgr' = "wait"
              /\ \A s \in ctClients : ~Running(s) /\ task'[s].pc = "getSTH"]_vars
    /\ [](\A s \in Shards : Running(s) => (mgr = "wait" /\ s \in ctClients))
    /\ [][mgr = "wait" /\ mgr' # "wait" => \A s \in ctClients : ~Running(s)]_vars

C28_Witness ==
    /\ cycles = 2
    /\ lastIndex["log2"] = 2
    /\ task["log2"].pc = "check"
    /\ task["log3"].pc = "inHandle"

\* C30: a failure of one shard in a cycle is confined to that shard and
\* that cycle. The step on which a shard's task fails writes no cursor and
\* touches neither another shard's task nor the manager; a task that
\* completes leaves its own cursor at the end of its range, whatever the
\* other shard did; and the manager leaves wg.Wait() only for the select.
Fails(s) == task[s].pc # "failed" /\ task'[s].pc = "failed"

C30_ShardFailureConfined ==
    /\ [][\A s \in Shards :
            Fails(s) =>
                /\ lastIndex' = lastIndex
                /\ mgr' = mgr /\ ~panicked'
                /\ \A r \in Tasks \ {s} : task'[r] = task[r]]_vars
    /\ [][\A r \in Shards :
            (task[r].pc # "done" /\ task'[r].pc = "done" /\ task'[r].wrote) =>
                /\ lastIndex'[r] = task[r].endIndex
                /\ \A s \in Shards \ {r} : lastIndex'[s] = lastIndex[s]]_vars
    /\ [][(mgr = "wait" /\ mgr' # "wait") => mgr' = "select"]_vars

\* In the second cycle: log2 failed in the first one (its cursor is where
\* it started), log3 advanced in that same cycle, and log2's retry has
\* fetched, matched and is dispatching.
C30_Witness ==
    /\ cycles = 2
    /\ lastIndex["log2"] = 0 /\ lastIndex["log3"] = 2
    /\ task["log2"].pc = "inHandle"
    /\ task["log3"].pc = "done"

\* C29: within one shard's cycle the entries are taken in increasing
\* order, one position at a time, and the handler loop for the entry at
\* position i has called every sink and returned before the loop moves to
\* position i + 1. The entry at position i of the batch is the one with
\* log index start + i.
InDispatch(s) == task[s].pc \in {"update", "dispatch", "inHandle"}

C29_EntriesInOrderDispatchFirst ==
    /\ [][\A s \in Shards :
            (task'[s].i # task[s].i /\ task'[s].pc = "loop") =>
                /\ task'[s].i = task[s].i + 1
                /\ task[s].pc \in {"loop", "dispatch"}
                /\ task'[s].start = task[s].start]_vars
    /\ [][\A s \in Shards :
            (InDispatch(s) /\ ~InDispatch(s)' /\ ~panicked') =>
                /\ task'[s].pc = "loop"
                /\ task'[s].i = task[s].i + 1
                /\ Len(task[s].calls) = Len(handlers)
                /\ \A k \in 1..Len(handlers) : task[s].calls[k].sink = handlers[k]]_vars
    /\ [](\A s \in Shards :
            InDispatch(s) =>
                /\ task[s].i < task[s].n
                /\ task[s].pc = "inHandle" => Len(task[s].calls) = task[s].h
                /\ task[s].pc = "dispatch" => Len(task[s].calls) = task[s].h - 1)

C29_Witness ==
    \E s \in Shards :
        /\ task[s].pc = "inHandle"
        /\ task[s].i = 1
        /\ task[s].h = Len(handlers)
        /\ task[s].dispatched

\* C31: in live mode a message without a type, or of a type other than
\* "certificate_update", is discarded: the step that takes it from the
\* stream starts no handler loop, calls no sink and leaves the registry,
\* every lastSeen included, as it was.
TakesMessage == liveEvents' = liveEvents + 1

C31_OtherMessageTypesDiscarded ==
    [][(TakesMessage /\ task'[LiveTask].messageType # "certificate_update") =>
            /\ task'[LiveTask].pc = "idle" /\ mgr' = "liveSelect"
            /\ task'[LiveTask].calls = << >>
            /\ inHandle' = inHandle
            /\ watchedDomains' = watchedDomains /\ heap' = heap]_vars

C31_Witness ==
    /\ task[LiveTask].messageType = "heartbeat"
    /\ task[LiveTask].pc = "idle" /\ mgr = "liveSelect"
    /\ liveEvents = 2
    /\ task[LiveTask].dispatched
    /\ watchedDomains # << >>

\* C32: every event the live manager hands to a sink names the stream
\* ("certstream") as its source and carries sequence index 0.
C32_LiveEventTaggedCertstream ==
    \A k \in 1..Len(task[LiveTask].calls) :
        /\ task[LiveTask].calls[k].entry.LogURL = "certstream"
        /\ task[LiveTask].calls[k].entry.Index = 0

\* Both sinks have been called for a match taken after a reconnection.
C32_Witness ==
    /\ Len(task[LiveTask].calls) = NumSinks
    /\ task[LiveTask].pc = "inHandle"
    /\ reconnects >= 1

\* C33: the match step is the same in both modes. For the registry and the
\* all-domains flag of the state and every ordered candidate list, the
\* polling path and the live path allow the same outcomes, no match
\* included; a task of either path that leaves the match step with a
\* match goes on to the lastSeen update in watch-list mode, and that update
\* stamps the matched entry; in all-domains mode neither path writes the
\* registry.
CandidateNames == {Str_a, Str_sub, Str_dot, <<"A">>, << >>}

CandidateLists ==
    {<< >>} \cup {<<x>> : x \in CandidateNames}
            \cup {<<x, y>> : x \in CandidateNames, y \in CandidateNames}

C34_CursorLeavesNoGap ==
    \A s \in SmallShards :
        (0 <= probe /\ probe < lastIndex[s]) => probeCount[s] >= 1

\* C35: a polling worker never issues an entries fetch from a negative
\* cursor: the start index of every get-entries call, answered or failed,
\* is at least 0.
C35_FetchStartsAtValidIndex ==
    \A s \in Shards :
        task[s].pc \in {"loop", "update", "dispatch", "inHandle", "failed", "done"}
            => task[s].start >= 0

\* C36: the lastSeen update is not lost. When the update for a match on
\* watched domain d is applied and d is a registry key, the entry stored
\* under d carries the time of the update afterwards.
C36_LastSeenUpdateNotLost ==
    [][\A t \in Tasks :
          (/\ task[t].pc = "update" /\ task'[t].pc = "dispatch"
           /\ task[t].matchedDomain \in DOMAIN watchedDomains) =>
              heap'[watchedDomains[task[t].matchedDomain]].LastSeen = clock]_vars

\* C37: calls to the same sink never overlap: at most one Handle call is
\* in progress on a registered sink at any moment.
C37_OneCallPerSinkAtATime ==
    \A k \in 1..NumSinks : inHandle[k] <= 1

\* C38: once Stop has returned, no new Handle call is started on any sink
\* and no new polling cycle begins.
C38_QuietAfterStop ==
    [][stopCalls >= 1 =>
          /\ cycles' = cycles
          /\ \A k \in 1..NumSinks : inHandle'[k] <= inHandle[k]]_vars

\* C39: every resubscription connects to the endpoint of the initial
\* subscription: once subscribed, the feed endpoint never changes.
C39_OneFeedEndpoint ==
    [][feed # "none" => feed' = feed]_vars

====
